---------------------------- MODULE Spec2Model ----------------------------
(***************************************************************************)
(* Model of ScoresServer (src/server.py): a bounded in-memory leaderboard  *)
(* kept in two dicts, users {name: score} and scores {score: name}.        *)
(*                                                                         *)
(* Spec     : requests are handled one at a time; every action is one     *)
(*            whole request handler.                                       *)
(* SpecConc : requests are handled by threads of the threaded development *)
(*            server (app.run), which interleave between the statements of *)
(*            add_score / sort_scores; nothing in the code takes a lock.   *)
(***************************************************************************)
EXTENDS Integers, Sequences, FiniteSets, TLC

\* ----------------------------------------------------------------- bounds
NumNames == 3
MaxScore == 4
MaxLimit == 2
MaxConcRequests == 3

NamePool == <<"alice", "bob", "carol", "dave", "erin", "frank">>
\* the request names that are tried, all lowercase
Names == {NamePool[i] : i \in 1..NumNames}
\* a request name that fails the pattern
BadName == "Bob1"
RawNames == Names \cup {BadName}
\* request scores: JSON integers; 0 fails the pattern ^[1-9]\d*$
RawScores == 0..MaxScore
Scores == 1..MaxScore
\* the <int:rank> route converter only accepts unsigned integers
Ranks == 0..(MaxLimit + 1)
Limits == 0..MaxLimit
\* SpecConc tries one name and one score fewer
ConcNames == {NamePool[i] : i \in 1..(NumNames - 1)} \cup {BadName}
ConcScores == 0..(MaxScore - 1)

\* ------------------------------------------------------------ Python None
\* dict.get(...) of a missing key is None; one sentinel per value type
NoUser == "None"
NoScore == 0

\* `if prev_score:` -- None is falsy (and so is the integer 0, its model)
Truthy(prev_score) == prev_score # NoScore

\* --------------------------------------------------------------- the dicts
\* self.users: a function from the names on the board to their scores
\* (its iteration order is never read).
EmptyUsers == [n \in {} |-> NoScore]

UsersGet(U, name) == IF name \in DOMAIN U THEN U[name] ELSE NoScore

UsersHas(U, name) == name \in DOMAIN U

UsersDel(U, name) == [n \in (DOMAIN U) \ {name} |-> U[n]]

UsersSet(U, name, score) ==
    [n \in (DOMAIN U) \cup {name} |-> IF n = name THEN score ELSE U[n]]

\* self.scores: a dict read in insertion order (list(self.scores), json.dumps),
\* so a sequence of items [k |-> score, v |-> name] with distinct keys.
EmptyScores == <<>>

Item(key, val) == [k |-> key, v |-> val]

Keys(S) == [i \in 1..Len(S) |-> S[i].k]

KeySet(S) == {S[i].k : i \in 1..Len(S)}

DictHas(S, key) == key \in KeySet(S)

DictGet(S, key) ==
    IF DictHas(S, key)
    THEN S[CHOOSE i \in 1..Len(S) : S[i].k = key].v
    ELSE NoUser

\* mutant: the del statement is missing
DictDel_Noop(S, key) == S

DictDel(S, key) == SelectSeq(S, LAMBDA e : e.k # key)

\* an assignment to an existing key keeps its position, a new key goes last
DictSet(S, key, val) ==
    IF DictHas(S, key)
    THEN [i \in 1..Len(S) |-> IF S[i].k = key THEN [k |-> key, v |-> val] ELSE S[i]]
    ELSE Append(S, [k |-> key, v |-> val])

SetMax(X) == CHOOSE m \in X : \A x \in X : x <= m

RECURSIVE SortedDesc(_)
\* sorted(keys, reverse=True)
SortedDesc(X) ==
    IF X = {} THEN <<>>
    ELSE <<SetMax(X)>> \o SortedDesc(X \ {SetMax(X)})

\* mutant: the dict is left in insertion order
sort_scores_Skipped(S) == S

RECURSIVE SortedAsc(_)
\* mutant: reverse=True is missing
SortedAsc(X) ==
    IF X = {} THEN <<>>
    ELSE SortedAsc(X \ {SetMax(X)}) \o <<SetMax(X)>>

sort_scores_Ascending(S) ==
    LET ks == SortedAsc(KeySet(S))
    IN [i \in 1..Len(ks) |-> [k |-> ks[i], v |-> DictGet(S, ks[i])]]

\* {k: self.scores[k] for k in sorted(self.scores, reverse=True)}
sort_scores(S) ==
    LET ks == SortedDesc(KeySet(S))
    IN [i \in 1..Len(ks) |-> [k |-> ks[i], v |-> DictGet(S, ks[i])]]

\* --------------------------------------------------------------- responses
\* A message is its template and the values formatted into it.
Msg(tpl, name, n1, n2) == [tpl |-> tpl, name |-> name, n1 |-> n1, n2 |-> n2]

\* Response(json.dumps(resp), status=code): "score" is <<>> when the body has
\* no "score" key, "scores" is <<>> when it has no "scores" key.
Resp(code, status, message, score, all) ==
    [status_code |-> code, status |-> status, message |-> message,
     score |-> score, scores |-> all]

ScorePayload(user, score) == <<[user |-> user, score |-> score]>>

NoResp == Resp(0, "none", Msg("none", "", 0, 0), <<>>, <<>>)

\* an unhandled exception: the server answers 500 and the handler stops there
Fault(exc) == Resp(500, "error", Msg(exc, "", 0, 0), <<>>, <<>>)

RespInvalid(tpl) == Resp(400, "failed", Msg(tpl, "", 0, 0), <<>>, <<>>)

RespClaimed(user, score) ==
    Resp(200, "success", Msg("already_has_this_highscore", user, 0, 0),
         ScorePayload(user, score), <<>>)

RespNotBeaten(name, prev_score) ==
    Resp(200, "success", Msg("has_not_beaten_previous", name, 0, 0),
         ScorePayload(name, prev_score), <<>>)

RespFull(limit, lowest_highscore) ==
    Resp(200, "success", Msg("must_be_within_top", "", limit, lowest_highscore),
         <<>>, <<>>)

\* extra is the previous score named by extra_msg, NoScore when extra_msg is ""
RespAdded(name, score, extra) ==
    Resp(200, "success", Msg("added_score", name, score, extra),
         ScorePayload(name, score), <<>>)

RespRankBelowOne == Resp(404, "failed", Msg("rank_must_be_1_or_greater", "", 0, 0), <<>>, <<>>)

RespRankNotFound(rank, scores_length) ==
    Resp(404, "failed", Msg("rank_could_not_be_found", "", rank, scores_length),
         <<>>, <<>>)

RespFound(name, rank, score) ==
    Resp(200, "success", Msg("found_user_at_rank", name, rank, score),
         ScorePayload(name, score), <<>>)

RespAll(all) == Resp(200, "success", Msg("retrieved_all_scores", "", 0, 0), <<>>, all)

\* ---------------------------------------------------------------- validate
\* re.match("^[a-z]+$", name), over the names that are tried
MatchesNamePattern(name) == name \in {NamePool[i] : i \in 1..Len(NamePool)}

\* re.match("^[1-9]\d*$", str(score)) for an int: its decimal form has no
\* sign and no leading zero exactly when it is 1 or more
MatchesScorePattern(score) == score >= 1

\* validate(end_point_config) for a JSON body holding a str name and an int
\* score: the first failing pattern's response, or NoResp for None (valid)
validate(name, score) ==
    IF ~MatchesNamePattern(name) THEN RespInvalid("name_must_be_lowercase_a_z")
    ELSE IF ~MatchesScorePattern(score) THEN RespInvalid("score_must_be_positive")
    ELSE NoResp

\* --------------------------------------------------------------- add_score
Result(U, S, r) == [users |-> U, scores |-> S, resp |-> r]

\* mutant: line 178 is missing
Insert_ScoresOnly(U, S, name, score, extra) ==
    Result(U, sort_scores(DictSet(S, score, name)), RespAdded(name, score, extra))

\* lines 178-187: insert into both dicts, sort, answer
Insert(U, S, name, score, extra) ==
    Result(UsersSet(U, name, score),
           sort_scores(DictSet(S, score, name)),
           RespAdded(name, score, extra))

\* line 137: the score is in self.scores under another name
ClaimedByOther(user, name) == user # NoUser /\ user # name

\* mutant: != for >
BeatsPrevious_NotEqual(score, prev_score) == score # prev_score

\* mutant: >= for >
BeatsPrevious_OrEqual(score, prev_score) == score >= prev_score

\* line 148
BeatsPrevious(score, prev_score) == score > prev_score

\* mutant: > for ==
AtCapacity_Greater(S, limit) == Len(S) > limit

\* line 161
AtCapacity(S, limit) == Len(S) = limit

\* mutant: index 0 for -1
LowestKey_First(S) == Keys(S)[1]

\* line 163: list(self.scores)[-1], the key inserted or sorted last
LowestKey(S) == Keys(S)[Len(S)]

\* mutant: the comparison turned round
BelowLowest_Inverted(lowest_highscore, score) == lowest_highscore < score

\* mutant: the check of line 164 is missing
BelowLowest_Never(lowest_highscore, score) == FALSE

\* line 164
BelowLowest(lowest_highscore, score) == lowest_highscore > score

\* mutant: the lowest entry is removed before its score is compared
CapacityThenInsert_EvictFirst(U, S, limit, name, score, extra) ==
    IF AtCapacity(S, limit)
    THEN IF Len(S) = 0
         THEN Result(U, S, Fault("IndexError"))
         ELSE LET lowest_highscore == LowestKey(S)
                  lowest_user == DictGet(S, lowest_highscore)
                  U1 == UsersDel(U, lowest_user)
                  S1 == DictDel(S, lowest_highscore)
              IN IF BelowLowest(lowest_highscore, score)
                 THEN Result(U1, S1, RespFull(limit, lowest_highscore))
                 ELSE Insert(U1, S1, name, score, extra)
    ELSE Insert(U, S, name, score, extra)

\* lines 161-187, reached with the submitter's stale pair (if any) removed
CapacityThenInsert(U, S, limit, name, score, extra) ==
    IF AtCapacity(S, limit)
    THEN IF Len(S) = 0
         THEN Result(U, S, Fault("IndexError"))       \* list(self.scores)[-1]
         ELSE LET lowest_highscore == LowestKey(S)
                  lowest_user == DictGet(S, lowest_highscore)
              IN IF BelowLowest(lowest_highscore, score)
                 THEN Result(U, S, RespFull(limit, lowest_highscore))
                 ELSE IF ~UsersHas(U, lowest_user)
                 THEN Result(U, S, Fault("KeyError")) \* del self.users[lowest_user]
                 ELSE Insert(UsersDel(U, lowest_user), DictDel(S, lowest_highscore),
                             name, score, extra)
    ELSE Insert(U, S, name, score, extra)

\* mutant: the capacity check runs before the stale pair is removed
PersonalBestThenInsert_CapacityFirst(U, S, limit, name, score) ==
    LET prev_score == UsersGet(U, name)
        r == CapacityThenInsert(U, S, limit, name, score, prev_score)
    IN IF Truthy(prev_score)
       THEN IF BeatsPrevious(score, prev_score)
            THEN Result(r.users, DictDel(r.scores, prev_score), r.resp)
            ELSE Result(U, S, RespNotBeaten(name, prev_score))
       ELSE CapacityThenInsert(U, S, limit, name, score, NoScore)

\* lines 145-187: the submitter's own previous score, then capacity, then insert
PersonalBestThenInsert(U, S, limit, name, score) ==
    LET prev_score == UsersGet(U, name)
    IN IF Truthy(prev_score)
       THEN IF BeatsPrevious(score, prev_score)
            THEN IF ~DictHas(S, prev_score)
                 THEN Result(UsersDel(U, name), S, Fault("KeyError"))
                 ELSE CapacityThenInsert(UsersDel(U, name), DictDel(S, prev_score),
                                         limit, name, score, prev_score)
            ELSE Result(U, S, RespNotBeaten(name, prev_score))
       ELSE CapacityThenInsert(U, S, limit, name, score, NoScore)

\* mutant: the check of line 137 is missing
add_score_NoClaimCheck(U, S, limit, name, score) ==
    PersonalBestThenInsert(U, S, limit, name, score)

\* lines 132-187: the handler's body after validation, on the dicts U and S
add_score(U, S, limit, name, score) ==
    LET user == DictGet(S, score)
    IN IF ClaimedByOther(user, name)
       THEN Result(U, S, RespClaimed(user, score))
       ELSE PersonalBestThenInsert(U, S, limit, name, score)

\* ---------------------------------------------------------------- get_rank
\* mutant: <= for <
RankMissing_OffByOne(scores_length, rank) == scores_length <= rank

\* line 219
RankMissing(scores_length, rank) == scores_length < rank

get_rank(S, rank) ==
    IF rank <= 0 THEN RespRankBelowOne
    ELSE LET index == rank - 1
             score_list == Keys(S)
             scores_length == Len(score_list)
         IN IF RankMissing(scores_length, rank)
            THEN RespRankNotFound(rank, scores_length)
            ELSE LET score == score_list[index + 1]
                     name == DictGet(S, score)
                 IN RespFound(name, rank, score)

\* ---------------------------------------------------------- get_all_scores
Digits == <<"0", "1", "2", "3", "4", "5", "6", "7", "8", "9">>

RECURSIVE IntToStr(_)
\* json.dumps writes an int key of a dict as its decimal string
IntToStr(n) ==
    IF n < 10 THEN Digits[n + 1]
    ELSE IntToStr(n \div 10) \o Digits[(n % 10) + 1]

\* json.dumps(self.scores): the items in the dict's order, keys as strings
JsonScores(S) == [i \in 1..Len(S) |-> [k |-> IntToStr(S[i].k), v |-> S[i].v]]

get_all_scores(S) == RespAll(JsonScores(S))

\* ------------------------------------------------------------------- state
VARIABLES
    users,                  \* self.users
    scores,                 \* self.scores
    highscore_table_limit,  \* self.highscore_table_limit
    req,                    \* the request handled last
    resp,                   \* the response it got
    before,                 \* the two dicts (and held) as they were when it arrived
    resubmitted,            \* it repeats the POST before it, which was accepted
    held,                   \* the highest score each name has ever had on the board
    pc,                     \* SpecConc: each thread's position in its handler
    loc,                    \* SpecConc: each thread's local variables
    started                 \* SpecConc: requests accepted so far

vars == <<users, scores, highscore_table_limit, req, resp, before, resubmitted,
          held, pc, loc, started>>

store == <<users, scores>>

Threads == {1, 2}

Req(op, name, score, rank) == [op |-> op, name |-> name, score |-> score, rank |-> rank]

NoReq == Req("none", "", 0, 0)

NoLoc ==
    [req |-> NoReq, prev_score |-> NoScore, user |-> NoUser,
     extra |-> NoScore, lowest_highscore |-> NoScore, lowest_user |-> NoUser,
     keys |-> <<>>, i |-> 0, sorted |-> <<>>, score_list |-> <<>>]

\* ScoresServer(host, port, highscore_table_limit): both dicts empty
Init ==
    /\ users = EmptyUsers
    /\ scores = EmptyScores
    /\ highscore_table_limit \in Limits
    /\ req = NoReq
    /\ resp = NoResp
    /\ held = [n \in Names |-> NoScore]
    /\ before = [users |-> EmptyUsers, scores |-> EmptyScores, held |-> held]
    /\ resubmitted = FALSE
    /\ pc = [t \in Threads |-> "idle"]
    /\ loc = [t \in Threads |-> NoLoc]
    /\ started = 0

Snapshot == before' = [users |-> users, scores |-> scores, held |-> held]

\* history of one-at-a-time runs: whether the request repeats an accepted
\* POST, and every name's highest score so far
Record(q) ==
    /\ resubmitted' = (q.op = "POST" /\ q = req /\ resp.message.tpl = "added_score")
    /\ held' = [n \in Names |->
                  IF UsersGet(users', n) > held[n] THEN UsersGet(users', n) ELSE held[n]]

\* ------------------------------------------- requests handled one at a time
\* POST /scores/ with a JSON body {"name": name, "score": score}
PostScore(name, score) ==
    LET error_response == validate(name, score)
        r == add_score(users, scores, highscore_table_limit, name, score)
    IN /\ req' = Req("POST", name, score, 0)
       /\ Snapshot
       /\ IF error_response # NoResp
          THEN /\ resp' = error_response
               /\ UNCHANGED store
          ELSE /\ users' = r.users
               /\ scores' = r.scores
               /\ resp' = r.resp
       /\ Record(Req("POST", name, score, 0))
       /\ UNCHANGED <<highscore_table_limit, pc, loc, started>>

\* mutant: the entry found is taken off the board (pop for get)
GetRank_Pops(rank) ==
    /\ req' = Req("GET_RANK", "", 0, rank)
    /\ Snapshot
    /\ resp' = get_rank(scores, rank)
    /\ IF resp'.status_code = 200
       THEN /\ scores' = DictDel(scores, resp'.score[1].score)
            /\ users' = UsersDel(users, resp'.score[1].user)
       ELSE UNCHANGED store
    /\ UNCHANGED <<highscore_table_limit, pc, loc, started>>
    /\ Record(Req("GET_RANK", "", 0, rank))

\* GET /scores/<int:rank>/
GetRank(rank) ==
    /\ req' = Req("GET_RANK", "", 0, rank)
    /\ Snapshot
    /\ resp' = get_rank(scores, rank)
    /\ UNCHANGED <<store, highscore_table_limit, pc, loc, started>>
    /\ Record(Req("GET_RANK", "", 0, rank))

\* GET /scores/
GetAllScores ==
    /\ req' = Req("GET_ALL", "", 0, 0)
    /\ Snapshot
    /\ resp' = get_all_scores(scores)
    /\ UNCHANGED <<store, highscore_table_limit, pc, loc, started>>
    /\ Record(Req("GET_ALL", "", 0, 0))

Next ==
    \/ \E name \in RawNames, score \in RawScores : PostScore(name, score)
    \/ \E rank \in Ranks : GetRank(rank)
    \/ GetAllScores

Spec == Init /\ [][Next]_vars

\* ------------------------------------------- requests handled by threads
\* app.run() serves every request on a thread of its own and the handlers take
\* no lock.  A step is one statement of the handler, which reads or writes the
\* shared dicts at most once; the decisions on local variables that follow it
\* belong to the same step.
Goto(t, label, l) ==
    /\ pc' = [pc EXCEPT ![t] = label]
    /\ loc' = [loc EXCEPT ![t] = l]

\* never written by a thread's step
Unused == <<before, resubmitted, held, highscore_table_limit>>

\* the request is still being handled: nothing has been answered
Continue(t, label, l) ==
    /\ Goto(t, label, l)
    /\ UNCHANGED <<req, resp>>

\* the handler of request q returns r (or dies with the exception r stands
\* for) and its thread ends; req and resp keep the request answered last
Answer(t, q, r) ==
    /\ Goto(t, "idle", NoLoc)
    /\ req' = q
    /\ resp' = r

Finish(t, r) == Answer(t, loc[t].req, r)

\* a request gets a thread of its own: the first free slot
Accept(t) ==
    /\ pc[t] = "idle"
    /\ \A u \in Threads : u < t => pc[u] # "idle"
    /\ started < MaxConcRequests
    /\ started' = started + 1

\* lines 128-130: a POST arrives at thread t and is validated
StartPost(t, name, score) ==
    /\ Accept(t)
    /\ IF validate(name, score) # NoResp
       THEN Answer(t, Req("POST", name, score, 0), validate(name, score))
       ELSE Continue(t, "get_prev", [NoLoc EXCEPT !.req = Req("POST", name, score, 0)])
    /\ UNCHANGED <<store, Unused>>

\* line 135
GetPrev(t) ==
    /\ pc[t] = "get_prev"
    /\ Continue(t, "get_user",
            [loc[t] EXCEPT !.prev_score = UsersGet(users, loc[t].req.name)])
    /\ UNCHANGED <<store, Unused, started>>

\* lines 136-159: read the score's holder, then decide on the local values
GetUser(t) ==
    LET name == loc[t].req.name
        score == loc[t].req.score
        prev_score == loc[t].prev_score
        user == DictGet(scores, score)
    IN /\ pc[t] = "get_user"
       /\ IF ClaimedByOther(user, name)
          THEN Finish(t, RespClaimed(user, score))
          ELSE IF Truthy(prev_score)
          THEN IF BeatsPrevious(score, prev_score)
               THEN Continue(t, "del_user", [loc[t] EXCEPT !.user = user,
                                                       !.extra = prev_score])
               ELSE Finish(t, RespNotBeaten(name, prev_score))
          ELSE Continue(t, "check_len", [loc[t] EXCEPT !.user = user])
       /\ UNCHANGED <<store, Unused, started>>

\* line 151
DelUser(t) ==
    /\ pc[t] = "del_user"
    /\ IF UsersHas(users, loc[t].req.name)
       THEN /\ users' = UsersDel(users, loc[t].req.name)
            /\ Continue(t, "del_score", loc[t])
       ELSE /\ Finish(t, Fault("KeyError"))
            /\ UNCHANGED users
    /\ UNCHANGED <<scores, Unused, started>>

\* line 152
DelScore(t) ==
    /\ pc[t] = "del_score"
    /\ IF DictHas(scores, loc[t].prev_score)
       THEN /\ scores' = DictDel(scores, loc[t].prev_score)
            /\ Continue(t, "check_len", loc[t])
       ELSE /\ Finish(t, Fault("KeyError"))
            /\ UNCHANGED scores
    /\ UNCHANGED <<users, Unused, started>>

\* line 161
CheckLen(t) ==
    /\ pc[t] = "check_len"
    /\ IF AtCapacity(scores, highscore_table_limit)
       THEN Continue(t, "get_lowest", loc[t])
       ELSE Continue(t, "set_user", loc[t])
    /\ UNCHANGED <<store, Unused, started>>

\* lines 163-170
GetLowest(t) ==
    /\ pc[t] = "get_lowest"
    /\ IF Len(scores) = 0
       THEN Finish(t, Fault("IndexError"))
       ELSE IF BelowLowest(LowestKey(scores), loc[t].req.score)
       THEN Finish(t, RespFull(highscore_table_limit, LowestKey(scores)))
       ELSE Continue(t, "get_lowest_user",
                 [loc[t] EXCEPT !.lowest_highscore = LowestKey(scores)])
    /\ UNCHANGED <<store, Unused, started>>

\* line 173
GetLowestUser(t) ==
    /\ pc[t] = "get_lowest_user"
    /\ Continue(t, "del_lowest_user",
            [loc[t] EXCEPT !.lowest_user = DictGet(scores, loc[t].lowest_highscore)])
    /\ UNCHANGED <<store, Unused, started>>

\* line 174
DelLowestUser(t) ==
    /\ pc[t] = "del_lowest_user"
    /\ IF UsersHas(users, loc[t].lowest_user)
       THEN /\ users' = UsersDel(users, loc[t].lowest_user)
            /\ Continue(t, "del_lowest_score", loc[t])
       ELSE /\ Finish(t, Fault("KeyError"))
            /\ UNCHANGED users
    /\ UNCHANGED <<scores, Unused, started>>

\* line 175
DelLowestScore(t) ==
    /\ pc[t] = "del_lowest_score"
    /\ IF DictHas(scores, loc[t].lowest_highscore)
       THEN /\ scores' = DictDel(scores, loc[t].lowest_highscore)
            /\ Continue(t, "set_user", loc[t])
       ELSE /\ Finish(t, Fault("KeyError"))
            /\ UNCHANGED scores
    /\ UNCHANGED <<users, Unused, started>>

\* line 178
SetUser(t) ==
    /\ pc[t] = "set_user"
    /\ users' = UsersSet(users, loc[t].req.name, loc[t].req.score)
    /\ Continue(t, "set_score", loc[t])
    /\ UNCHANGED <<scores, Unused, started>>

\* line 179
SetScore(t) ==
    /\ pc[t] = "set_score"
    /\ scores' = DictSet(scores, loc[t].req.score, loc[t].req.name)
    /\ Continue(t, "sort_keys", loc[t])
    /\ UNCHANGED <<users, Unused, started>>

\* line 195: sorted(self.scores, reverse=True), the comprehension's iterable
SortKeys(t) ==
    /\ pc[t] = "sort_keys"
    /\ Continue(t, "sort_item", [loc[t] EXCEPT !.keys = SortedDesc(KeySet(scores)),
                                           !.i = 1, !.sorted = <<>>])
    /\ UNCHANGED <<store, Unused, started>>

\* line 195: one turn of the comprehension, k: self.scores[k]
SortItem(t) ==
    LET k == loc[t].keys[loc[t].i]
    IN /\ pc[t] = "sort_item"
       /\ loc[t].i <= Len(loc[t].keys)
       /\ IF DictHas(scores, k)
          THEN Continue(t, "sort_item",
                    [loc[t] EXCEPT !.sorted = Append(@, Item(k, DictGet(scores, k))),
                                   !.i = @ + 1])
          ELSE Finish(t, Fault("KeyError"))
       /\ UNCHANGED <<store, Unused, started>>

\* line 195: self.scores = the new dict; lines 182-187: answer
SortAssign(t) ==
    /\ pc[t] = "sort_item"
    /\ loc[t].i > Len(loc[t].keys)
    /\ scores' = loc[t].sorted
    /\ Finish(t, RespAdded(loc[t].req.name, loc[t].req.score, loc[t].extra))
    /\ UNCHANGED <<users, Unused, started>>

\* lines 209-214: a GET /scores/<rank>/ arrives at thread t
StartGetRank(t, rank) ==
    /\ Accept(t)
    /\ IF rank <= 0
       THEN Answer(t, Req("GET_RANK", "", 0, rank), RespRankBelowOne)
       ELSE Continue(t, "rank_list", [NoLoc EXCEPT !.req = Req("GET_RANK", "", 0, rank)])
    /\ UNCHANGED <<store, Unused>>

\* lines 216-226: list(self.scores)
RankList(t) ==
    /\ pc[t] = "rank_list"
    /\ IF RankMissing(Len(Keys(scores)), loc[t].req.rank)
       THEN Finish(t, RespRankNotFound(loc[t].req.rank, Len(Keys(scores))))
       ELSE Continue(t, "rank_get", [loc[t] EXCEPT !.score_list = Keys(scores)])
    /\ UNCHANGED <<store, Unused, started>>

\* lines 227-233: self.scores.get(score)
RankGet(t) ==
    LET score == loc[t].score_list[(loc[t].req.rank - 1) + 1]
    IN /\ pc[t] = "rank_get"
       /\ Finish(t, RespFound(DictGet(scores, score), loc[t].req.rank, score))
       /\ UNCHANGED <<store, Unused, started>>

\* lines 240-244: a GET /scores/ arrives at thread t; json.dumps reads the dict
GetAllConc(t) ==
    /\ Accept(t)
    /\ Answer(t, Req("GET_ALL", "", 0, 0), get_all_scores(scores))
    /\ UNCHANGED <<store, Unused>>

NextConc ==
    \E t \in Threads :
        \/ \E name \in ConcNames, score \in ConcScores : StartPost(t, name, score)
        \/ GetPrev(t)
        \/ GetUser(t)
        \/ DelUser(t)
        \/ DelScore(t)
        \/ CheckLen(t)
        \/ GetLowest(t)
        \/ GetLowestUser(t)
        \/ DelLowestUser(t)
        \/ DelLowestScore(t)
        \/ SetUser(t)
        \/ SetScore(t)
        \/ SortKeys(t)
        \/ SortItem(t)
        \/ SortAssign(t)
        \/ \E rank \in Ranks : StartGetRank(t, rank)
        \/ RankList(t)
        \/ RankGet(t)
        \/ GetAllConc(t)

SpecConc == Init /\ [][NextConc]_vars

\* ================================================================== claims
Items(S) == {S[i] : i \in 1..Len(S)}

SetMin(X) == CHOOSE m \in X : \A x \in X : m <= x

\* the step handles a POST whose body passes validation
ValidPost == req'.op = "POST" /\ validate(req'.name, req'.score) = NoResp

\* the last request was a POST that reached add_score
WasValidPost == req.op = "POST" /\ validate(req.name, req.score) = NoResp

\* C1: in every state reached by requests handled one at a time, users and
\* scores are exact inverses: users[u] = s iff scores[s] = u, no score is
\* listed twice and no user holds two scores.
C1_InverseMaps ==
    /\ \A u \in DOMAIN users : DictGet(scores, users[u]) = u
    /\ \A i \in 1..Len(scores) : UsersGet(users, scores[i].v) = scores[i].k
    /\ \A i, j \in 1..Len(scores) : scores[i].k = scores[j].k => i = j

\* an accepted improvement replaced a pair on a board of two or more entries
C1_Witness ==
    /\ WasValidPost
    /\ resp.message.tpl = "added_score"
    /\ resp.message.n2 # NoScore
    /\ Len(scores) >= 2

\* C2: in every state reached by requests handled one at a time, users and
\* scores have the same number of entries and that number never exceeds
\* highscore_table_limit.
C2_SizeWithinLimit ==
    /\ Cardinality(DOMAIN users) = Len(scores)
    /\ Len(scores) <= highscore_table_limit

\* a new user was accepted on a board that was already full
C2_Witness ==
    /\ WasValidPost
    /\ resp.message.tpl = "added_score"
    /\ ~UsersHas(before.users, req.name)
    /\ Len(before.scores) = highscore_table_limit
    /\ Len(scores) = highscore_table_limit

\* no request is being handled
Quiet == \A t \in Threads : pc[t] = "idle"

\* C3: when POST requests are handled concurrently their steps do not
\* interleave, so whenever no request is in progress users and scores are
\* exact inverses of equal size within highscore_table_limit, and no request
\* dies on a key another request removed (KeyError).
C3_Serialized ==
    /\ Quiet => (C1_InverseMaps /\ C2_SizeWithinLimit)
    /\ resp.message.tpl # "KeyError"

\* C4: a valid submission of a score held by another user is answered with
\* the already-claimed response naming the holder and the score, and changes
\* neither dict -- whoever submits, full board or not.
C4_ClaimedLeavesStore ==
    [][ (ValidPost /\ ClaimedByOther(DictGet(scores, req'.score), req'.name))
        => /\ users' = users
           /\ scores' = scores
           /\ resp' = RespClaimed(DictGet(scores, req'.score), req'.score) ]_vars

\* a user on a full board submitted another user's score, above their own
C4_Witness ==
    /\ WasValidPost
    /\ resp.message.tpl = "already_has_this_highscore"
    /\ UsersHas(before.users, req.name)
    /\ req.score > before.users[req.name]
    /\ Len(before.scores) = highscore_table_limit
    /\ resp.score[1].user # req.name

\* C5: a submission by a user on the board with a score not above their
\* recorded one changes neither dict; unless another user holds that score,
\* a valid one is answered not-beaten with (user, previous score).
C5_NotBetterLeavesStore ==
    [][ (req'.op = "POST" /\ UsersHas(users, req'.name)
             /\ req'.score <= users[req'.name])
        => /\ users' = users
           /\ scores' = scores
           /\ (ValidPost /\ ~ClaimedByOther(DictGet(scores, req'.score), req'.name))
                 => resp' = RespNotBeaten(req'.name, users[req'.name]) ]_vars

\* a user submitted a score strictly below their recorded one
C5_Witness ==
    /\ WasValidPost
    /\ resp.message.tpl = "has_not_beaten_previous"
    /\ req.score < before.users[req.name]
    /\ resp.score[1].score = before.users[req.name]

\* C6: on a full board, a new user's unheld score above the minimum removes
\* exactly the minimum entry from both dicts, adds (user, score) to both,
\* keeps every other entry and keeps the size.
C6_EvictsMinimum ==
    [][ (ValidPost /\ Len(scores) = highscore_table_limit /\ Len(scores) >= 1
             /\ ~UsersHas(users, req'.name)
             /\ ~DictHas(scores, req'.score)
             /\ req'.score > SetMin(KeySet(scores)))
        => LET m == SetMin(KeySet(scores))
               mu == DictGet(scores, m)
           IN /\ users' = UsersSet(UsersDel(users, mu), req'.name, req'.score)
              /\ Items(scores') =
                    (Items(scores) \ {Item(m, mu)}) \cup {Item(req'.score, req'.name)}
              /\ Len(scores') = Len(scores)
              /\ resp' = RespAdded(req'.name, req'.score, NoScore) ]_vars

\* a new user displaced the minimum of a full board of two or more entries
C6_Witness ==
    /\ WasValidPost
    /\ resp.message.tpl = "added_score"
    /\ ~UsersHas(before.users, req.name)
    /\ Len(before.scores) = highscore_table_limit
    /\ Len(before.scores) >= 2
    /\ ~DictHas(scores, SetMin(KeySet(before.scores)))

\* C7 as stated: on a full board, a new user's score that does not exceed
\* the lowest score is answered leaderboard-full with that lowest score as
\* the threshold, and changes neither dict.
C7_Original ==
    [][ (ValidPost /\ Len(scores) = highscore_table_limit /\ Len(scores) >= 1
             /\ ~UsersHas(users, req'.name)
             /\ req'.score <= SetMin(KeySet(scores)))
        => /\ users' = users
           /\ scores' = scores
           /\ resp' = RespFull(highscore_table_limit, SetMin(KeySet(scores))) ]_vars

\* C7 amended: on a full board, a new user's score strictly below the lowest
\* score is answered leaderboard-full with that lowest score as threshold; a
\* score equal to the lowest is answered already-claimed, naming the lowest
\* entry's user; neither changes either dict.
C7_BelowLowestRejected ==
    [][ (ValidPost /\ Len(scores) = highscore_table_limit /\ Len(scores) >= 1
             /\ ~UsersHas(users, req'.name)
             /\ req'.score <= SetMin(KeySet(scores)))
        => LET m == SetMin(KeySet(scores))
           IN /\ users' = users
              /\ scores' = scores
              /\ req'.score < m => resp' = RespFull(highscore_table_limit, m)
              /\ req'.score = m => resp' = RespClaimed(DictGet(scores, m), m) ]_vars

\* a new user was turned away from a full board with a score below its lowest
C7_Witness ==
    /\ WasValidPost
    /\ resp.message.tpl = "must_be_within_top"
    /\ ~UsersHas(before.users, req.name)
    /\ Len(before.scores) = highscore_table_limit
    /\ req.score < SetMin(KeySet(before.scores))
    /\ resp.message.n2 = SetMin(KeySet(before.scores))

\* C8: a user on the board who submits an unheld score above their recorded
\* one is accepted: the new pair replaces the old one in both dicts, the old
\* score is no key any more, the size and every other entry stay, also on a
\* full board.
C8_ImprovementAccepted ==
    [][ (ValidPost /\ UsersHas(users, req'.name)
             /\ req'.score > users[req'.name]
             /\ ~ClaimedByOther(DictGet(scores, req'.score), req'.name))
        => LET prev == users[req'.name]
           IN /\ resp' = RespAdded(req'.name, req'.score, prev)
              /\ users' = UsersSet(users, req'.name, req'.score)
              /\ Items(scores') =
                    (Items(scores) \ {Item(prev, req'.name)})
                        \cup {Item(req'.score, req'.name)}
              /\ ~DictHas(scores', prev)
              /\ Len(scores') = Len(scores) ]_vars

\* a user improved their score on a full board of two or more entries
C8_Witness ==
    /\ WasValidPost
    /\ resp.message.tpl = "added_score"
    /\ UsersHas(before.users, req.name)
    /\ req.score > before.users[req.name]
    /\ Len(before.scores) = highscore_table_limit
    /\ Len(before.scores) >= 2

\* the score a found response carries
RankScore(S, k) == get_rank(S, k).score[1].score

\* C9: in every state with n >= 1 entries, get_rank(1) answers the maximum
\* score, get_rank(k) answers a strictly greater score than get_rank(k+1)
\* for 1 <= k < n, and every pair answered is an entry of the board.
C9_RanksDescend ==
    Len(scores) >= 1 =>
        /\ RankScore(scores, 1) = SetMax(KeySet(scores))
        /\ \A k \in 1..(Len(scores) - 1) : RankScore(scores, k) > RankScore(scores, k + 1)
        /\ \A k \in 1..Len(scores) :
              LET r == get_rank(scores, k)
              IN /\ r = RespFound(r.score[1].user, k, r.score[1].score)
                 /\ UsersGet(users, r.score[1].user) = r.score[1].score
                 /\ DictGet(scores, r.score[1].score) = r.score[1].user

\* rank 2 was asked for and found
C9_Witness ==
    /\ req.op = "GET_RANK"
    /\ req.rank = 2
    /\ resp = get_rank(scores, 2)
    /\ resp.status_code = 200

\* a not-found response that names the number of entries
CarriesCount(r, n) ==
    r.status_code = 404 /\ r.message.tpl = "rank_could_not_be_found" /\ r.message.n2 = n

\* C10 as stated: get_rank answers not-found carrying the current number of
\* entries exactly when rank < 1 or rank exceeds it, and found otherwise.
C10_Original ==
    [][ req'.op = "GET_RANK"
        => LET n == Len(scores)
               missing == req'.rank < 1 \/ req'.rank > n
           IN /\ missing <=> CarriesCount(resp', n)
              /\ ~missing => resp'.status_code = 200 ]_vars

\* C10 amended: get_rank answers 404 exactly when rank < 1 or rank exceeds
\* the number of entries; the 404 names the number of entries when rank >= 1
\* and only says that rank must be 1 or greater when rank < 1; every rank
\* from 1 to the number of entries is found.
C10_NotFoundCases ==
    [][ req'.op = "GET_RANK"
        => LET n == Len(scores)
               rank == req'.rank
           IN /\ resp'.status_code = 404 <=> (rank < 1 \/ rank > n)
              /\ (rank >= 1 /\ rank > n) => resp' = RespRankNotFound(rank, n)
              /\ rank < 1 => resp' = RespRankBelowOne /\ ~CarriesCount(resp', n)
              /\ (1 <= rank /\ rank <= n)
                    => /\ resp'.status_code = 200
                       /\ resp'.message.tpl = "found_user_at_rank" ]_vars

\* a rank past the last entry of a non-empty board was asked for
C10_Witness ==
    /\ req.op = "GET_RANK"
    /\ Len(scores) >= 1
    /\ req.rank = Len(scores) + 1
    /\ CarriesCount(resp, Len(scores))

\* the integer a client reads from a JSON key: the one whose decimal form it is
KeyValue(str) == CHOOSE n \in 0..(10 * MaxScore) : IntToStr(n) = str

\* the (score, user) pairs a "scores" body lists, in the order it lists them
Listed(all) == [i \in 1..Len(all) |-> <<KeyValue(all[i].k), all[i].v>>]

\* C11: in every state GET /scores/ answers 200 and lists exactly the entries
\* of the board, each once, as (score, user) pairs in strictly descending
\* score order (each score written as its decimal string).
C11_ListAllExactDescending ==
    [][ req'.op = "GET_ALL"
        => LET pairs == Listed(resp'.scores)
           IN /\ resp'.status_code = 200
              /\ \A a, b \in 0..(10 * MaxScore) : IntToStr(a) = IntToStr(b) => a = b
              /\ Len(pairs) = Cardinality(DOMAIN users)
              /\ {pairs[i] : i \in 1..Len(pairs)} = {<<users[u], u>> : u \in DOMAIN users}
              /\ \A i \in 1..(Len(pairs) - 1) : pairs[i][1] > pairs[i + 1][1] ]_vars

\* a board of two or more entries was listed
C11_Witness ==
    /\ req.op = "GET_ALL"
    /\ Len(resp.scores) >= 2
    /\ Listed(resp.scores)[1][1] > Listed(resp.scores)[2][1]

\* C12: a POST that repeats the (user, score) of the accepted POST handled
\* just before it is answered not-beaten with (user, score) and changes
\* neither dict.
C12_ResubmissionRejected ==
    [][ (req.op = "POST" /\ resp.message.tpl = "added_score" /\ req' = req)
        => /\ resp' = RespNotBeaten(req.name, req.score)
           /\ users' = users
           /\ scores' = scores ]_vars

\* an accepted POST was sent again straight away
C12_Witness ==
    /\ resubmitted
    /\ WasValidPost
    /\ resp.message.tpl = "has_not_beaten_previous"
    /\ before.users[req.name] = req.score

\* what a caller reads of a response without its message text
NonMessage(r) == <<r.status_code, r.status, r.score>>

IsRejection(r) ==
    r.message.tpl \in {"already_has_this_highscore", "has_not_beaten_previous",
                       "must_be_within_top"}

\* C13: the answer to a rejected POST differs from the answer an accepted
\* POST of the same (user, score) gets in the status code, the status field
\* or the score payload, so a caller can tell them apart without the message.
C13_RejectionDistinguishable ==
    (WasValidPost /\ IsRejection(resp))
        => NonMessage(resp) # NonMessage(RespAdded(req.name, req.score, NoScore))

\* the outcomes add_score is meant to have
Outcomes ==
    {"added_score", "already_has_this_highscore", "has_not_beaten_previous",
     "must_be_within_top"}

\* C14: for every highscore_table_limit >= 0, a valid POST ends in exactly
\* one of success, already-claimed, not-beaten or leaderboard-full, never in
\* an exception, and leaves users and scores consistent.
C14_NoFault ==
    WasValidPost
        => /\ resp.message.tpl \in Outcomes
           /\ resp.status_code = 200
           /\ C1_InverseMaps
           /\ C2_SizeWithinLimit

\* the step handles a valid POST and answers that the score was added
Accepted == ValidPost /\ resp'.message.tpl = "added_score"

\* C15: below capacity, a POST by a user not on the board with a score
\* nobody holds is accepted with (user, score): both dicts gain that pair,
\* the size grows by one and every other entry stays.
C15_FreshInsert ==
    [][ (ValidPost /\ Len(scores) < highscore_table_limit
             /\ ~UsersHas(users, req'.name) /\ ~DictHas(scores, req'.score))
        => /\ resp' = RespAdded(req'.name, req'.score, NoScore)
           /\ users' = UsersSet(users, req'.name, req'.score)
           /\ DictGet(scores', req'.score) = req'.name
           /\ Items(scores') = Items(scores) \cup {Item(req'.score, req'.name)}
           /\ Len(scores') = Len(scores) + 1
           /\ Cardinality(DOMAIN users') = Cardinality(DOMAIN users) + 1 ]_vars

\* a new user joined a board that had an entry and room for one more
C15_Witness ==
    /\ WasValidPost
    /\ resp.message.tpl = "added_score"
    /\ ~UsersHas(before.users, req.name)
    /\ Len(before.scores) >= 1
    /\ Len(before.scores) < highscore_table_limit
    /\ Len(scores) = Len(before.scores) + 1

\* thread u has written to a dict for its POST and has writes still to do:
\* the old pair or the evicted pair is (half) gone, or the new pair is
\* (half) in or not yet sorted into place
MidWrite(u) ==
    \/ pc[u] \in {"del_score", "del_lowest_score", "set_score", "sort_keys", "sort_item"}
    \/ /\ pc[u] \in {"check_len", "get_lowest", "get_lowest_user",
                     "del_lowest_user", "set_user"}
       /\ loc[u].extra # NoScore
    \/ pc[u] = "set_user" /\ loc[u].lowest_highscore # NoScore

\* the step of thread t reads the dicts for a GET
ReadStep(t) ==
    \/ pc[t] = "idle" /\ pc'[t] = "idle" /\ started' # started /\ req'.op = "GET_ALL"
    \/ pc[t] = "rank_list" /\ pc'[t] # "rank_list"
    \/ pc[t] = "rank_get" /\ pc'[t] # "rank_get"

\* C16: a GET handled while a POST is in progress never reads the dicts
\* between that POST's first and last write, and a rank that is found is
\* never answered with the user None.
C16_ReadsSeeNoPartialWrite ==
    [][ /\ resp'.message.tpl = "found_user_at_rank" => resp'.message.name # NoUser
        /\ \A t \in Threads :
              ReadStep(t) => \A u \in Threads \ {t} : ~MidWrite(u) ]_vars

\* C17: GET /scores/<rank>/ for every rank and GET /scores/ leave users,
\* scores and highscore_table_limit as they were, found or not.
C17_ReadsChangeNothing ==
    [][ req'.op \in {"GET_RANK", "GET_ALL"}
        => /\ users' = users
           /\ scores' = scores
           /\ highscore_table_limit' = highscore_table_limit ]_vars

\* rank 1 of a non-empty board was found and the board is as it was
C17_Witness ==
    /\ req.op = "GET_RANK"
    /\ req.rank = 1
    /\ resp.status_code = 200
    /\ Len(scores) >= 1
    /\ users = before.users
    /\ scores = before.scores

\* C18: from one state to the next the number of entries never falls: an
\* accepted improvement or eviction keeps it, a fresh insert adds one,
\* anything else keeps it; a board at capacity stays at capacity.
C18_SizeNeverFalls ==
    [][ /\ Len(scores') >= Len(scores)
        /\ Cardinality(DOMAIN users') >= Cardinality(DOMAIN users)
        /\ Len(scores) = highscore_table_limit => Len(scores') = highscore_table_limit
        /\ Len(scores') =
              IF Accepted /\ ~UsersHas(users, req'.name)
                          /\ Len(scores) < highscore_table_limit
              THEN Len(scores) + 1
              ELSE Len(scores) ]_vars

\* a fresh insert filled a board of capacity two or more
C18_Witness ==
    /\ WasValidPost
    /\ resp.message.tpl = "added_score"
    /\ Len(scores) = Len(before.scores) + 1
    /\ Len(scores) = highscore_table_limit
    /\ Len(scores) >= 2

\* C19: every accepted score is strictly above every score its user ever
\* had on the board, also after an eviction in between; the highest score
\* on the board and the lowest score on a full board never fall.
C19_ScoresOnlyRise ==
    [][ /\ Accepted => req'.score > held[req'.name]
        /\ Len(scores) >= 1
              => /\ Len(scores') >= 1
                 /\ SetMax(KeySet(scores')) >= SetMax(KeySet(scores))
        /\ (Len(scores) >= 1 /\ Len(scores) = highscore_table_limit)
              => SetMin(KeySet(scores')) >= SetMin(KeySet(scores)) ]_vars

\* a user who had been evicted came back with a higher score
C19_Witness ==
    /\ WasValidPost
    /\ resp.message.tpl = "added_score"
    /\ ~UsersHas(before.users, req.name)
    /\ before.held[req.name] # NoScore
    /\ req.score > before.held[req.name]

=============================================================================
